---- MODULE Spec2Model ----
(***************************************************************************)
(* Model of src/app.py: the "Generate Combined Summary" button handler,    *)
(* get_article_text and summarize_text.  A Python str is a sequence of     *)
(* one-character strings; the HTTP fetch and the T5 model are the only     *)
(* nondeterministic collaborators.                                         *)
(***************************************************************************)
EXTENDS Integers, Sequences, FiniteSets, TLC

\* ---------------------------------------------------------------- bounds
MaxUrls == 6            \* most URL lines in a generated input block
MaxBlocks == 2          \* most whole 500-character increments past the window
MaxExtra == 2           \* extra characters past the last whole increment

\* ------------------------------------------------------ program constants
MaxInputFinal == 2000   \* app.py:60
MaxInputArticle == 1500 \* app.py:62
MinChunk == 50          \* app.py:66
MinWords == 200         \* app.py:93
GrowStep == 500         \* app.py:95
MaxWords == 1500        \* app.py:115
MinCutIndex == 100      \* app.py:121
MaxUrlCount == 5        \* app.py:140
MinRawText == 50        \* app.py:149

\* ------------------------------------------------------- Python str model
\* values that are not a str (a str has one-character elements)
None == <<"None">>
NoValue == <<"NoValue">>
Raised == <<"Raised">>

Whitespace == {" ", "\n", "\t"}
IsSpace(c) == c \in Whitespace
Min(a, b) == IF a < b THEN a ELSE b
Idx(s) == [k \in 1..Len(s) |-> k]
Rep(c, n) == [k \in 1..n |-> c]

\* s[a:b] for 0 <= a, 0 <= b
Slice(s, a, b) ==
    IF a >= Min(b, Len(s)) THEN <<>> ELSE SubSeq(s, a + 1, Min(b, Len(s)))

WordStarts(s) ==
    SelectSeq(Idx(s), LAMBDA k: ~IsSpace(s[k]) /\ (k = 1 \/ IsSpace(s[k - 1])))
WordEnds(s) ==
    SelectSeq(Idx(s), LAMBDA k: ~IsSpace(s[k]) /\ (k = Len(s) \/ IsSpace(s[k + 1])))

\* s.split()
split(s) ==
    LET b == WordStarts(s)
        e == WordEnds(s)
    IN  [k \in 1..Len(b) |-> SubSeq(s, b[k], e[k])]

\* sep.join(w[lo..hi])
RECURSIVE JoinRange(_, _, _, _)
JoinRange(sep, w, lo, hi) ==
    IF lo > hi THEN <<>>
    ELSE IF lo = hi THEN w[lo]
    ELSE LET mid == (lo + hi) \div 2
         IN  JoinRange(sep, w, lo, mid) \o sep \o JoinRange(sep, w, mid + 1, hi)

\* sep.join(w)
join(sep, w) == JoinRange(sep, w, 1, Len(w))

\* s.strip()
strip(s) ==
    LET b == WordStarts(s)
        e == WordEnds(s)
    IN  IF Len(b) = 0 THEN <<>> ELSE SubSeq(s, b[1], e[Len(e)])

\* s.split('\n')
split_lines(s) ==
    LET nl == SelectSeq(Idx(s), LAMBDA k: s[k] = "\n")
        m == Len(nl) + 1
    IN  [k \in 1..m |->
            Slice(s, IF k = 1 THEN 0 ELSE nl[k - 1],
                     IF k = m THEN Len(s) ELSE nl[k] - 1)]

\* s.rfind(c): 0-based index of the last c, or -1
rfind(s, c) ==
    LET p == SelectSeq(Idx(s), LAMBDA k: s[k] = c)
    IN  IF Len(p) = 0 THEN -1 ELSE p[Len(p)] - 1

\* s.endswith(tuple of one-character suffixes)
endswith(s, cs) == Len(s) > 0 /\ s[Len(s)] \in cs

count_words(text) == Len(split(text))

\* ----------------------------------------------------------- input families
Alphabet == <<"a", "b", "c", "d", "e", "f", "g">>
Digits == <<"1", "2", "3", "4", "5", "6", "7", "8", "9">>

\* one word of n letters whose letter depends on its position
Cyc(n) == [k \in 1..n |-> Alphabet[((k - 1) % 7) + 1]]

\* n words joined by sep; word p ends with '.', word b with '!', word q with '?'
Sentence(n, p, b, q, sep) ==
    join(sep, [k \in 1..n |->
        IF k = p THEN <<"a", ".">>
        ELSE IF k = b THEN <<"a", "!">>
        ELSE IF k = q THEN <<"a", "?">>
        ELSE <<"a">>])

ManyWords(n) == Sentence(n, 0, 0, 0, <<" ">>)

ShortTexts ==
    { <<>>, <<" ">>, <<"\n", " ">>, <<"a">>, <<"a", " ", "b">>,
      <<"a", " ", " ", "b">>, <<" ", "a", "\t", "b", "\n">>,
      Cyc(MinChunk - 1), Cyc(MinChunk),
      Cyc(MinChunk - 5) \o Rep(" ", 10) \o <<"z">>,
      ManyWords(MinWords) }

LongLens ==
    { MaxInputFinal + GrowStep * b + d : b \in 0..MaxBlocks, d \in 0..MaxExtra }

LongTexts ==
    { Cyc(n) : n \in LongLens \cup {MaxInputArticle, MaxInputArticle + 1} }
    \cup { ManyWords(MaxWords + 1),
           <<" ", " ">> \o Cyc(MaxInputFinal + 100) \o <<" ", "\n", " ">> \o Cyc(30),
           <<"x", " ">> \o Cyc(MaxInputFinal + GrowStep + 7) }

Texts == ShortTexts \cup LongTexts

\* what the model can decode to when summarize_text is called directly
DirectOutputs ==
    { <<>>,
      ManyWords(MinWords - 1),
      ManyWords(MinWords),
      ManyWords(MaxWords),
      ManyWords(MaxWords + 1),
      Sentence(MaxWords + 1, 100, 0, 0, <<" ">>),
      Sentence(MaxWords + 1, 10, 0, 0, <<" ">>),
      Sentence(MaxWords + 1, 100, MaxWords, 0, <<" ">>),
      Sentence(MaxWords + 1, 100, 200, 0, <<" ">>),
      Sentence(MaxWords + 1, 0, 0, 300, <<" ">>),
      Sentence(MaxWords + 2, 100, 0, 0, <<" ", " ">>),
      Rep("x", MinCutIndex + 1) \o <<".", " ">> \o ManyWords(MaxWords) }

\* what the model can decode to during a button click
HandlerOutputs == { <<"s", ".", " ", "t">> }

\* the URL written on the j-th URL line
Url(j) == <<"u", Digits[j]>>

Layouts == {"plain", "padded", "empty_lines", "blank_lines"}

\* the text area content: k URL lines laid out as the layout says
BuildInput(k, layout) ==
    LET pre == IF layout \in {"padded", "blank_lines"} THEN <<" ">> ELSE <<>>
        post == IF layout \in {"padded", "blank_lines"} THEN <<"\t", " ">> ELSE <<>>
        gap == IF layout = "empty_lines" THEN <<"\n">>
               ELSE IF layout = "blank_lines" THEN <<" ", "\t", "\n">>
               ELSE <<>>
    IN  gap \o join(<<"\n">> \o gap, [j \in 1..k |-> pre \o Url(j) \o post]) \o
        (IF layout = "plain" THEN <<>> ELSE <<"\n">> \o pre)

\* what the fetch of a page can give: an exception, or the <p> texts left
\* after the unwanted elements are removed
Responses ==
    { [raises |-> TRUE, paragraphs |-> <<>>],
      [raises |-> FALSE, paragraphs |-> <<>>],
      [raises |-> FALSE, paragraphs |-> << <<" ">> \o Cyc(MinRawText) \o <<"\n">> >>],
      [raises |-> FALSE,
       paragraphs |-> << Cyc(30) \o <<" ">>, <<"\n">> \o Cyc(28) \o <<" ">> >>] }

\* ------------------------------------------------------------------ state
VARIABLES
    pc,             \* where the run is: the button handler, or a direct call
    urls_input,     \* the text area content
    url_list,       \* app.py:138
    i,              \* index of the URL the loop is at (app.py:145)
    all_summaries,  \* app.py:143
    final_summary,  \* app.py:162
    messages,       \* what st.warning/error/info/success showed, in order
    trace,          \* calls of get_article_text, summarize_text and the model
    spc,            \* where summarize_text is
    s_text,         \* summarize_text: the argument text
    is_final,       \* summarize_text: the argument is_final
    text,           \* summarize_text: text after app.py:56
    chunk,          \* summarize_text: app.py:64, app.py:97
    summary,        \* summarize_text: app.py:86, app.py:109
    word_count,     \* summarize_text: app.py:89, app.py:110
    ret             \* summarize_text: the returned value

hvars == <<pc, urls_input, url_list, i, all_summaries, final_summary, messages>>
svars == <<spc, s_text, is_final, text, chunk, summary, word_count, ret>>
vars == <<hvars, svars, trace>>

\* the frame of a call summarize_text(t, f)
Call(t, f) ==
    /\ spc' = "enter"
    /\ s_text' = t
    /\ is_final' = f
    /\ text' = NoValue
    /\ chunk' = NoValue
    /\ summary' = NoValue
    /\ word_count' = 0
    /\ ret' = NoValue

NoCall ==
    /\ spc = "none"
    /\ s_text = NoValue
    /\ is_final = FALSE
    /\ text = NoValue
    /\ chunk = NoValue
    /\ summary = NoValue
    /\ word_count = 0
    /\ ret = NoValue

InitHandler ==
    /\ pc = "idle"
    /\ \E k \in 0..MaxUrls, layout \in Layouts : urls_input = BuildInput(k, layout)
    /\ url_list = <<>>
    /\ i = 0
    /\ all_summaries = <<>>
    /\ final_summary = NoValue
    /\ messages = <<>>
    /\ trace = <<>>
    /\ NoCall

InitDirect ==
    /\ pc = "call"
    /\ urls_input = <<>>
    /\ url_list = <<>>
    /\ i = 0
    /\ all_summaries = <<>>
    /\ final_summary = NoValue
    /\ messages = <<>>
    /\ spc = "enter"
    /\ s_text \in Texts
    /\ is_final \in BOOLEAN
    /\ trace = << [fn |-> "summarize_text", arg |-> s_text, final |-> is_final] >>
    /\ text = NoValue
    /\ chunk = NoValue
    /\ summary = NoValue
    /\ word_count = 0
    /\ ret = NoValue

Init == InitHandler \/ InitDirect

\* ---------------------------------------------------------- summarize_text
\* what the tokenizer/model/decoder can do with one input: raise, or decode
\* to some summary
ModelOutcomes ==
    {Raised} \cup (IF pc = "call" THEN DirectOutputs ELSE HandlerOutputs)

\* variant: app.py:56 stripping the ends only
Clean_Mutant(t) == strip(t)

\* app.py:56
Clean(t) == join(<<" ">>, split(t))

\* app.py:59-62
MaxInput(f) == IF f THEN MaxInputFinal ELSE MaxInputArticle

\* app.py:64
Window(t, f) == Slice(t, 0, MaxInput(f))

\* app.py:95
Additional(t, c) == Slice(t, Len(c), Len(c) + GrowStep)

\* variant: app.py:97 with = in place of +=
Extend_Mutant(c, a) == <<" ">> \o a

\* app.py:97
Extend(c, a) == c \o <<" ">> \o a

\* variant: app.py:93 with a floor of 100 words
GrowCond_Mutant == word_count < 100 /\ Len(chunk) < Len(text)

\* app.py:93
GrowCond == word_count < MinWords /\ Len(chunk) < Len(text)

\* app.py:115-122
Shape(s, wc) ==
    IF wc > MaxWords
    THEN LET cut == join(<<" ">>, Slice(split(s), 0, MaxWords))
             last_period == rfind(cut, ".")
         IN  IF ~endswith(cut, {".", "!", "?"}) /\ last_period > MinCutIndex
             THEN Slice(cut, 0, last_period + 1)
             ELSE cut
    ELSE s

\* app.py:126
Fallback == text

\* app.py:52-67
S_Enter ==
    /\ spc = "enter"
    /\ IF s_text = <<>>
       THEN /\ ret' = <<>>
            /\ spc' = "ret"
            /\ UNCHANGED <<text, chunk>>
       ELSE LET t == Clean(s_text)
                c == Window(t, is_final)
            IN  /\ text' = t
                /\ chunk' = c
                /\ IF Len(c) < MinChunk
                   THEN ret' = t /\ spc' = "ret"
                   ELSE ret' = ret /\ spc' = "generate"
    /\ UNCHANGED <<s_text, is_final, summary, word_count>>
    /\ UNCHANGED <<hvars, trace>>

\* app.py:69-91 and 124-126 for the first generation
S_Generate ==
    /\ spc = "generate"
    /\ \E out \in ModelOutcomes :
        /\ trace' = Append(trace, [fn |-> "model", arg |-> chunk, val |-> out])
        /\ IF out = Raised
           THEN /\ ret' = Fallback
                /\ spc' = "ret"
                /\ UNCHANGED <<summary, word_count>>
           ELSE /\ summary' = out
                /\ word_count' = count_words(out)
                /\ IF is_final
                   THEN ret' = ret /\ spc' = "grow"
                   ELSE ret' = out /\ spc' = "ret"
    /\ UNCHANGED <<s_text, is_final, text, chunk>>
    /\ UNCHANGED hvars

\* app.py:93-112, one iteration of the while loop
S_Grow ==
    /\ spc = "grow"
    /\ GrowCond
    /\ LET additional_text == Additional(text, chunk)
       IN  IF additional_text # <<>>
           THEN /\ chunk' = Extend(chunk, additional_text)
                /\ \E out \in ModelOutcomes :
                    /\ trace' = Append(trace,
                            [fn |-> "model", arg |-> chunk', val |-> out])
                    /\ IF out = Raised
                       THEN /\ ret' = Fallback
                            /\ spc' = "ret"
                            /\ UNCHANGED <<summary, word_count>>
                       ELSE /\ summary' = out
                            /\ word_count' = count_words(out)
                            /\ ret' = ret
                            /\ spc' = "grow"
           ELSE /\ spc' = "cap"
                /\ UNCHANGED <<chunk, summary, word_count, ret, trace>>
    /\ UNCHANGED <<s_text, is_final, text>>
    /\ UNCHANGED hvars

\* app.py:93, the while condition is false
S_LoopExit ==
    /\ spc = "grow"
    /\ ~GrowCond
    /\ spc' = "cap"
    /\ UNCHANGED <<s_text, is_final, text, chunk, summary, word_count, ret>>
    /\ UNCHANGED <<hvars, trace>>

\* app.py:114-124
S_Cap ==
    /\ spc = "cap"
    /\ summary' = Shape(summary, word_count)
    /\ ret' = summary'
    /\ spc' = "ret"
    /\ UNCHANGED <<s_text, is_final, text, chunk, word_count>>
    /\ UNCHANGED <<hvars, trace>>

\* a direct call returns to its caller
DirectReturn ==
    /\ pc = "call"
    /\ spc = "ret"
    /\ pc' = "returned"
    /\ trace' = Append(trace, [fn |-> "return", val |-> ret])
    /\ UNCHANGED <<urls_input, url_list, i, all_summaries, final_summary, messages>>
    /\ UNCHANGED svars

\* ------------------------------------------------------- get_article_text
\* app.py:27-48
get_article_text(response) ==
    IF response.raises
    THEN None
    ELSE strip(join(<<" ">>, response.paragraphs))

\* ------------------------------------------------------ the button handler
Reset ==
    /\ spc' = "none"
    /\ s_text' = NoValue
    /\ is_final' = FALSE
    /\ text' = NoValue
    /\ chunk' = NoValue
    /\ summary' = NoValue
    /\ word_count' = 0
    /\ ret' = NoValue

\* app.py:138
ParseUrls(input) ==
    LET lines == split_lines(input)
        kept == SelectSeq(lines, LAMBDA line: strip(line) # <<>>)
    IN  [k \in 1..Len(kept) |-> strip(kept[k])]

\* variant: app.py:140 off by one
TooMany_Mutant(list) == Len(list) > MaxUrlCount + 1

\* app.py:140
TooMany(list) == Len(list) > MaxUrlCount

\* app.py:134-143
Click ==
    /\ pc = "idle"
    /\ IF strip(urls_input) = <<>>
       THEN /\ messages' = Append(messages,
                [kind |-> "warning", msg |-> "Please enter at least one URL."])
            /\ pc' = "done"
            /\ UNCHANGED <<url_list, all_summaries>>
       ELSE /\ url_list' = ParseUrls(urls_input)
            /\ IF TooMany(url_list')
               THEN /\ messages' = Append(messages,
                        [kind |-> "error", msg |-> "Maximum 5 URLs allowed."])
                    /\ pc' = "done"
                    /\ UNCHANGED all_summaries
               ELSE /\ all_summaries' = <<>>
                    /\ pc' = "loop"
                    /\ UNCHANGED messages
    /\ UNCHANGED <<urls_input, i, final_summary, trace>>
    /\ UNCHANGED svars

\* variant: app.py:149 without the length test
Usable_Mutant(raw_text) == raw_text # None /\ raw_text # <<>>

\* app.py:149
Usable(raw_text) ==
    raw_text # None /\ raw_text # <<>> /\ Len(raw_text) > MinRawText

\* app.py:145-150 and 154-155
Extract ==
    /\ pc = "loop"
    /\ i < Len(url_list)
    /\ \E response \in Responses :
        LET url == url_list[i + 1]
            raw_text == get_article_text(response)
            info == [kind |-> "info", msg |-> "Processing", n |-> i + 1,
                     of |-> Len(url_list), url |-> Slice(url, 0, 50)]
            call == [fn |-> "get_article_text", arg |-> url, val |-> raw_text]
        IN  IF Usable(raw_text)
            THEN /\ messages' = Append(messages, info)
                 /\ trace' = trace \o << call,
                        [fn |-> "summarize_text", arg |-> raw_text, final |-> FALSE] >>
                 /\ Call(raw_text, FALSE)
                 /\ pc' = "in_article"
                 /\ i' = i
            ELSE /\ messages' = messages \o << info,
                        [kind |-> "warning", msg |-> "Could not extract text from",
                         url |-> url] >>
                 /\ trace' = Append(trace, call)
                 /\ i' = i + 1
                 /\ pc' = "loop"
                 /\ UNCHANGED svars
    /\ UNCHANGED <<urls_input, url_list, all_summaries, final_summary>>

\* app.py:150-153
ArticleReturn ==
    /\ pc = "in_article"
    /\ spc = "ret"
    /\ messages' = Append(messages,
            [kind |-> "success", msg |-> "Done", words |-> count_words(ret)])
    /\ all_summaries' = Append(all_summaries, ret)
    /\ trace' = Append(trace, [fn |-> "return", val |-> ret])
    /\ i' = i + 1
    /\ pc' = "loop"
    /\ Reset
    /\ UNCHANGED <<urls_input, url_list, final_summary>>

\* variant: app.py:157 without the emptiness test
HasSummaries_Mutant(list) == TRUE

\* app.py:157
HasSummaries(list) == list # <<>>

\* app.py:161
Combined(list) == join(<<" ">>, list)

\* app.py:157-162 and 178-179
Combine ==
    /\ pc = "loop"
    /\ i = Len(url_list)
    /\ IF HasSummaries(all_summaries)
       THEN LET combined == Combined(all_summaries)
            IN  /\ trace' = Append(trace,
                        [fn |-> "summarize_text", arg |-> combined, final |-> TRUE])
                /\ Call(combined, TRUE)
                /\ pc' = "in_final"
                /\ UNCHANGED messages
       ELSE /\ messages' = Append(messages,
                [kind |-> "error",
                 msg |-> "No valid text could be extracted from the URLs."])
            /\ pc' = "done"
            /\ UNCHANGED trace
            /\ UNCHANGED svars
    /\ UNCHANGED <<urls_input, url_list, i, all_summaries, final_summary>>

\* app.py:162-177
FinalReturn ==
    /\ pc = "in_final"
    /\ spc = "ret"
    /\ final_summary' = ret
    /\ LET final_word_count == count_words(ret)
       IN  messages' = messages \o <<
                [kind |-> "info", msg |-> "Word Count", words |-> final_word_count],
                IF final_word_count < MinWords
                THEN [kind |-> "warning", msg |-> "Minimum is 200.",
                      words |-> final_word_count]
                ELSE IF final_word_count > MaxWords
                THEN [kind |-> "warning", msg |-> "Maximum is 1500.",
                      words |-> final_word_count]
                ELSE [kind |-> "success", msg |-> "Summary meets requirements",
                      words |-> final_word_count],
                [kind |-> "download", msg |-> "summary.txt", data |-> ret] >>
    /\ trace' = Append(trace, [fn |-> "return", val |-> ret])
    /\ pc' = "done"
    /\ Reset
    /\ UNCHANGED <<urls_input, url_list, i, all_summaries>>

Next ==
    \/ Click
    \/ Extract
    \/ ArticleReturn
    \/ Combine
    \/ FinalReturn
    \/ S_Enter
    \/ S_Generate
    \/ S_Grow
    \/ S_LoopExit
    \/ S_Cap
    \/ DirectReturn

Spec == Init /\ [][Next]_vars

TypeOK ==
    /\ pc \in {"idle", "loop", "in_article", "in_final", "done", "call", "returned"}
    /\ spc \in {"none", "enter", "generate", "grow", "cap", "ret"}
    /\ i \in 0..MaxUrlCount
    /\ Len(all_summaries) <= i

\* ------------------------------------------------- vocabulary of the claims
Events(f) == SelectSeq(trace, LAMBDA e : e.fn = f)
ExtractEvents == Events("get_article_text")
ReturnEvents == Events("return")
ArticleCalls == SelectSeq(trace, LAMBDA e : e.fn = "summarize_text" /\ ~e.final)
FinalCalls == SelectSeq(trace, LAMBDA e : e.fn = "summarize_text" /\ e.final)

\* the number of lines of the input that have a non-whitespace character
NonBlankCount(input) ==
    LET lines == split_lines(input)
    IN  Cardinality({ k \in 1..Len(lines) :
                        \E j \in 1..Len(lines[k]) : ~IsSpace(lines[k][j]) })

Clicked == pc \in {"loop", "in_article", "in_final", "done"}
Accepted == Clicked /\ NonBlankCount(urls_input) \in 1..MaxUrlCount
LoopOver == pc \in {"in_final", "done"} \/ (pc = "loop" /\ i = Len(url_list))

\* an extraction that failed or gave too little text
Failed(v) == v = None \/ Len(v) <= MinRawText
Succeeded == SelectSeq(ExtractEvents, LAMBDA e : ~Failed(e.val))

RECURSIVE SpaceJoined(_)
SpaceJoined(list) ==
    IF Len(list) = 0 THEN <<>>
    ELSE IF Len(list) = 1 THEN list[1]
    ELSE list[1] \o <<" ">> \o SpaceJoined(Tail(list))

\* C1: an input block with no non-blank line or with more than 5 is rejected
\* with one message; the extractor, the summarizer and the model are never
\* called and no final summary is produced.
C1_InputRejection ==
    (Clicked /\ NonBlankCount(urls_input) \notin 1..MaxUrlCount)
        => /\ pc = "done"
           /\ trace = <<>>
           /\ spc = "none"
           /\ all_summaries = <<>>
           /\ final_summary = NoValue
           /\ Len(messages) = 1
           /\ messages[1].kind \in {"warning", "error"}

C1_Witness ==
    /\ pc = "done"
    /\ NonBlankCount(urls_input) > MaxUrlCount
    /\ messages = << [kind |-> "error", msg |-> "Maximum 5 URLs allowed."] >>

\* C2: in an accepted run every URL goes to the extractor once, in input
\* order; the per-article summarizer is called exactly for the extractions
\* that gave more than 50 characters; after the loop the per-article summary
\* list is the returned summaries of those URLs, in input order.
C2_FailureIsolation ==
    Accepted =>
        LET E == ExtractEvents
            ok == Succeeded
            A == ArticleCalls
            R == ReturnEvents
        IN  /\ Len(E) <= NonBlankCount(urls_input)
            /\ \A k \in 1..Len(E) : E[k].arg = Url(k)
            /\ LoopOver => Len(E) = NonBlankCount(urls_input)
            /\ Len(A) = Len(ok)
            /\ \A k \in 1..Len(A) : A[k].arg = ok[k].val
            /\ Len(all_summaries) <= Len(R)
            /\ \A k \in 1..Len(all_summaries) : all_summaries[k] = R[k].val
            /\ LoopOver => Len(all_summaries) = Len(ok)

C2_Witness ==
    /\ pc = "done"
    /\ Len(ExtractEvents) = 3
    /\ ~Failed(ExtractEvents[1].val)
    /\ Failed(ExtractEvents[2].val)
    /\ ~Failed(ExtractEvents[3].val)
    /\ Len(all_summaries) = 2
    /\ all_summaries[1] # all_summaries[2]

\* C3: in an accepted run the final-role summarizer is called at most once,
\* after every URL was processed, exactly when some per-article summary was
\* produced, on the space-joined per-article summaries in input order; with
\* no success there is no final summary and the failure is reported.
C3_FinalGating ==
    Accepted =>
        LET F == FinalCalls
            ok == Succeeded
            R == ReturnEvents
        IN  /\ Len(F) <= 1
            /\ Len(F) = 1 =>
                /\ Len(ExtractEvents) = NonBlankCount(urls_input)
                /\ Len(ok) > 0
                /\ \E p \in 1..Len(trace) :
                    /\ trace[p] = F[1]
                    /\ \A q \in (p + 1)..Len(trace) :
                        trace[q].fn \in {"model", "return"}
                /\ F[1].arg = SpaceJoined([k \in 1..Len(ok) |-> R[k].val])
            /\ pc \in {"in_final", "done"} => (Len(F) = 1 <=> Len(ok) > 0)
            /\ pc = "done" =>
                IF Len(ok) = 0
                THEN /\ final_summary = NoValue
                     /\ messages[Len(messages)].kind = "error"
                ELSE /\ Len(R) = Len(ok) + 1
                     /\ final_summary = R[Len(R)].val

C3_Witness ==
    /\ pc = "done"
    /\ Len(Succeeded) >= 2
    /\ Len(ExtractEvents) > Len(Succeeded)
    /\ final_summary # NoValue
    /\ Len(FinalCalls) = 1

\* the model invocations of the summarize_text call in progress
CallModelEvents ==
    LET calls == SelectSeq(Idx(trace), LAMBDA k : trace[k].fn = "summarize_text")
        p == calls[Len(calls)]
    IN  SelectSeq(Slice(trace, p, Len(trace)), LAMBDA e : e.fn = "model")

\* the last model invocation of the call in progress raised
ModelRaised ==
    LET M == CallModelEvents
    IN  Len(M) > 0 /\ M[Len(M)].val = Raised

\* the summary the model generated last in the call in progress
LastGenerated ==
    LET M == CallModelEvents
    IN  M[Len(M)].val

NonSpaceChars(s) == SelectSeq(s, LAMBDA c : ~IsSpace(c))
WordLens(s) == [k \in 1..Len(WordStarts(s)) |-> WordEnds(s)[k] - WordStarts(s)[k]]

\* whitespace only as single spaces between words
IsCollapsed(r) ==
    \A k \in 1..Len(r) :
        IsSpace(r[k]) => r[k] = " " /\ k > 1 /\ k < Len(r) /\ ~IsSpace(r[k + 1])

\* r is s with every whitespace run replaced by one space and none at the ends
IsCollapseOf(r, s) ==
    /\ IsCollapsed(r)
    /\ NonSpaceChars(r) = NonSpaceChars(s)
    /\ WordLens(r) = WordLens(s)

CollapsedLen(s) ==
    LET n == Len(WordStarts(s))
    IN  Len(NonSpaceChars(s)) + (IF n = 0 THEN 0 ELSE n - 1)

IsPrefix(a, b) == Len(a) <= Len(b) /\ a = Slice(b, 0, Len(a))

\* C4 as stated: a non-empty text shorter than 50 characters is returned
\* character for character as it was given, without a model invocation.
C4_Original ==
    (spc = "ret" /\ s_text # <<>> /\ Len(s_text) < MinChunk)
        => ret = s_text /\ CallModelEvents = <<>>

\* C4: a non-empty text whose whitespace-collapsed form is shorter than 50
\* characters is returned in that collapsed form (so unchanged when it is
\* already collapsed), without a model invocation.
C4_ShortTextPassThrough ==
    (spc = "ret" /\ s_text # <<>> /\ CollapsedLen(s_text) < MinChunk)
        => /\ IsCollapseOf(ret, s_text)
           /\ IsCollapsed(s_text) => ret = s_text
           /\ CallModelEvents = <<>>

C4_Witness ==
    /\ spc = "ret"
    /\ Len(s_text) >= MinChunk
    /\ CollapsedLen(s_text) < MinChunk
    /\ ret # s_text
    /\ Len(ret) > 1

\* C5: every value the final role returns has at most 1500 words.
C5_UpperWordBound ==
    (spc = "ret" /\ is_final) => count_words(ret) <= MaxWords

\* C6 as stated: the final role returns fewer than 200 words only when the
\* window can no longer be extended from the source.
C6_Original ==
    (spc = "ret" /\ is_final /\ s_text # <<>> /\ count_words(ret) < MinWords)
        => Len(chunk) >= Len(text)

\* C6: the final role returns fewer than 200 words only when the window can
\* no longer be extended, or the model raised and the fallback is returned,
\* or the last summary had more than 1500 words and went through the cap.
C6_LowerWordBound ==
    (spc = "ret" /\ is_final /\ s_text # <<>> /\ count_words(ret) < MinWords)
        => \/ Len(chunk) >= Len(text)
           \/ ModelRaised /\ ret = text
           \/ ~ModelRaised /\ word_count > MaxWords

C6_Witness ==
    /\ spc = "ret"
    /\ is_final
    /\ Len(CallModelEvents) >= 2
    /\ ~ModelRaised
    /\ count_words(ret) < MinWords
    /\ Len(chunk) >= Len(text)
    /\ Len(text) > MaxInputFinal

\* C7: when a model invocation raises, the returned value is the truncated
\* source text: the window of at most 1500 (per-article) or 2000 (final)
\* characters.
C7_FailureFallback ==
    (spc = "ret" /\ ModelRaised)
        => ret \in { Slice(s_text, 0, MaxInput(is_final)),
                     Slice(text, 0, MaxInput(is_final)) }

\* C8: a final summary of more than 1500 words is cut to its first 1500
\* words; when the cut does not end with '.', '!' or '?' and the last of
\* these characters is at an index above 100, the result ends at it;
\* otherwise the result is the 1500-word cut.
C8_SentenceBoundaryCut ==
    (spc = "ret" /\ is_final /\ Len(CallModelEvents) > 0 /\ ~ModelRaised
         /\ word_count > MaxWords)
        => LET cut == join(<<" ">>, Slice(split(LastGenerated), 0, MaxWords))
               marks == SelectSeq(Idx(cut), LAMBDA k : cut[k] \in {".", "!", "?"})
               last == IF Len(marks) = 0 THEN -1 ELSE marks[Len(marks)] - 1
           IN  IF ~endswith(cut, {".", "!", "?"}) /\ last > MinCutIndex
               THEN ret = Slice(cut, 0, last + 1)
               ELSE ret = cut

\* the loop of summarize_text runs on one thread and keeps iterating
FairSpec == Spec /\ WF_vars(S_Grow) /\ WF_vars(S_LoopExit)

\* C9: every iteration of the growth loop makes the window strictly longer,
\* the regenerations never outnumber the source characters past the first
\* window, and the loop is always left.
C9_GrowthLoopTerminates ==
    /\ [][(spc = "grow" /\ word_count < MinWords /\ Len(chunk) < Len(text))
            => Len(chunk') > Len(chunk)]_vars
    /\ [](spc = "grow" =>
            /\ Len(CallModelEvents) - 1 <= Len(text)
            /\ Len(CallModelEvents) > 1 => Len(CallModelEvents) - 1 <= Len(text) - MaxInputFinal)
    /\ (spc = "grow") ~> (spc \in {"cap", "ret"})

C9_Witness ==
    /\ spc = "cap"
    /\ Len(CallModelEvents) >= 3
    /\ word_count < MinWords

\* the window without the separator that each extension inserted
Unsep(c) ==
    SelectSeq(Idx(c), LAMBDA k :
        ~(k > MaxInputFinal /\ (k - MaxInputFinal - 1) % (GrowStep + 1) = 0))

\* C10: in the growth loop the window without its inserted separators is a
\* prefix of the collapsed source, and when the loop ends with fewer than 200
\* words the window holds every character of the source.
C10_WindowFidelity ==
    (is_final /\ spc \in {"grow", "cap"})
        => LET u == Unsep(chunk)
               w == [k \in 1..Len(u) |-> chunk[u[k]]]
           IN  /\ IsPrefix(w, text)
               /\ (spc = "cap" /\ word_count < MinWords) => w = text

====
